---- MODULE Spec2Model ----
(***************************************************************************)
(* The credential and instructor-application engine of lms-backend:        *)
(* controllers/instructorApplicationController.js (src/unnamed/part_000),  *)
(* controllers/authController.js and models/instructorApplicationModel.js. *)
(*                                                                         *)
(* Every express handler is an async function; between two awaits it runs  *)
(* atomically on the node event loop, and at an await another request may  *)
(* run.  Each action below is one such stretch of a handler: it performs   *)
(* the store call the handler awaited and runs the handler up to its next  *)
(* await (or to its response).                                             *)
(***************************************************************************)
EXTENDS Integers, FiniteSets, Sequences, TLC

VARIABLES
    users,      \* the User collection: a set of documents
    apps,       \* the InstructorApplication collection: a set of documents
    req,        \* req[p]: the request served in slot p, its locals and response
    nextUserId, \* the next _id the User collection hands out
    nextAppId,  \* the next _id the InstructorApplication collection hands out
    started,    \* number of requests started so far
    succeeded,  \* history: <<operation, application id>> pairs answered with success
    last        \* the request that ended last, with its response

vars == <<users, apps, req, nextUserId, nextAppId, started, succeeded, last>>

\* Bound on the number of requests of one behaviour.
MaxRequests == 4

\* The requests that may be in flight at the same time.
Procs == {"r1", "r2"}

\* Request inputs.
RawEmails == {"ada@x.com", "Ada@X.com", "bob@x.com"}
Secrets == {"secret1", "secret2"}
\* What requests that set a secret send: one that passes validation and one
\* that is too short.
NewSecrets == {"secret1", "abc"}
Admins == {"admin1"}
Reasons == {"undefined", "insufficient experience"}
Roles == {"admin", "student", "instructor"}
\* Math.random().toString(36).slice(-8) of forgotPassword
TempSecrets == {"k3x9q2ab"}
\* req.body.newPassword of changePassword
ChangedSecrets == {"secret1", "secret2"}
\* req.body.email of updateUserProfile ("undefined": not sent)
ProfileEmails == {"undefined", "bob@x.com"}

\* An id that names no application.
NoSuchId == 0

Unset == "unset"

(***************************************************************************)
(* Strings and secrets.                                                    *)
(***************************************************************************)

\* The schema's lowercase/trim setters, which mongoose applies to documents
\* and to query filters alike.
toLowerCase(e) == IF e = "Ada@X.com" THEN "ada@x.com" ELSE e

\* A secret as a value: the text `plain' with bcrypt applied `depth' times
\* (depth 0 is the clear text, depth 2 the hash of the text of a hash).
Plain(s) == [plain |-> s, depth |-> 0]

\* bcrypt.hash(value, salt).  The salt does not decide what compare answers
\* and is left out.
bcryptHash(v) == [plain |-> v.plain, depth |-> v.depth + 1]

\* bcrypt.compare(entered, stored)
bcryptCompare(s, stored) == stored = bcryptHash(Plain(s))

\* Joi: password: Joi.string().min(6).required()
ValidPassword(s) == s # "abc"

(***************************************************************************)
(* Responses.  status is res.statusCode when the handler ends (200 unless  *)
(* the handler set it), thrown tells whether it ended by throwing.         *)
(***************************************************************************)
Reply(status, message) == [status |-> status, thrown |-> FALSE, message |-> message]
Throw(status, message) == [status |-> status, thrown |-> TRUE, message |-> message]
NoResponse == [status |-> 0, thrown |-> FALSE, message |-> "none"]

\* The error kinds of the error taxonomy, read off the response.
Kind(r) ==
    IF ~r.thrown THEN "Success"
    ELSE IF r.status = 400 /\ r.message \in {"User with this email already exists",
                                            "Application with this email already exists",
                                            "User already exists"} THEN "Conflict"
    ELSE IF r.status = 400 /\ r.message = "Application has already been processed"
        THEN "InvalidState"
    ELSE IF r.status = 400 /\ r.message = "Current password is incorrect"
        THEN "Unauthorized"
    ELSE IF r.status = 400 THEN "InvalidInput"
    ELSE IF r.status = 404 THEN "NotFound"
    ELSE IF r.status = 401 THEN "Unauthorized"
    ELSE IF r.status = 500 THEN "DeliveryError"
    ELSE r.message

(***************************************************************************)
(* The stores.                                                             *)
(***************************************************************************)
UserFindOne(email) == {u \in users : u.email = toLowerCase(email)}

\* AppFindOne of a handler for which only a pending application holds its
\* email.
AppFindOnePending(email) ==
    {a \in apps : a.email = toLowerCase(email) /\ a.status = "pending"}

\* AppFindOne of a handler that makes no check on the applications.
AppFindOneNever(email) == {}

AppFindOne(email) == {a \in apps : a.email = toLowerCase(email)}
AppFindById(id) == {a \in apps : a.id = id}
UserFindById(id) == {u \in users : u.id = id}

\* AppEmailIndexAllows of a schema without unique: true.
AppEmailIndexMissing(email) == TRUE

\* unique: true on InstructorApplication.email
AppEmailIndexAllows(email) == \A a \in apps : a.email # email

\* the unique email index of the User collection
UserEmailIndexAllows(email) == \A u \in users : u.email # email

\* userSchema.pre('save'): hashes the password of a document whose password
\* was set.
UserPreSave(password) == bcryptHash(password)

\* instructorApplicationSchema.pre('save') on a new document.
AppPreSaveNew(password) == bcryptHash(password)

\* instructorApplicationSchema.pre('save') on a loaded document whose password
\* was not modified: the hook calls next() and, having no return, goes on to
\* hash this.password while the save it released is under way.  The stored
\* password stays as it is when the save builds its update first, and becomes
\* the hash of the loaded hash when the hook assigns first.
AppPreSaveUnmodified(stored, loaded) == {stored, bcryptHash(loaded)}

\* NewUser of a handler that passes the role and leaves the flags to their
\* defaults.
NewUserDefaultFlags(id, email, password, role, isAdmin, isInstructor, application) ==
    [id |-> id, email |-> toLowerCase(email), password |-> UserPreSave(password),
     role |-> role, isAdmin |-> FALSE, isInstructor |-> FALSE,
     isTemporaryPassword |-> FALSE, application |-> application]

\* User.create({...}).  application is history, not a field of the schema: the
\* id of the application the document was created from (NoSuchId: none).
NewUser(id, email, password, role, isAdmin, isInstructor, application) ==
    [id |-> id, email |-> toLowerCase(email), password |-> UserPreSave(password),
     role |-> role, isAdmin |-> isAdmin, isInstructor |-> isInstructor,
     isTemporaryPassword |-> FALSE, application |-> application]

\* InstructorApplication.create({...})
NewApplication(id, email, password) ==
    [id |-> id, email |-> toLowerCase(email), password |-> AppPreSaveNew(password),
     status |-> "pending", approvedBy |-> Unset, approvedAt |-> FALSE,
     rejectedBy |-> Unset, rejectedAt |-> FALSE, rejectionReason |-> Unset]

(***************************************************************************)
(* Requests.                                                               *)
(***************************************************************************)
NoDoc == [id |-> NoSuchId]

Idle ==
    [op |-> "none", pc |-> "idle", email |-> "none", password |-> "none",
     role |-> "none", id |-> NoSuchId, by |-> "none", reason |-> "undefined",
     application |-> NoDoc, user |-> NoDoc, found |-> FALSE, raced |-> FALSE,
     mail |-> "none", requirePasswordChange |-> FALSE, temporary |-> FALSE,
     prior |-> {}, res |-> NoResponse]

Free(p) == req[p].pc = "idle" /\ started < MaxRequests

\* The handler of slot p goes on as r1, to its next await.
Continue(p, r1) ==
    /\ req' = [req EXCEPT ![p] = r1]
    /\ UNCHANGED last

\* The handler of slot p, in state r0, ends with response r: the slot is free
\* again and the locals go out of scope.
Finish(p, r0, r) ==
    /\ req' = [req EXCEPT ![p] = Idle]
    /\ last' = [r0 EXCEPT !.pc = "done", !.res = r, !.application = NoDoc, !.user = NoDoc,
                          !.password = "none", !.role = "none", !.by = "none",
                          !.reason = "undefined"]

Init ==
    /\ users = {}
    /\ apps = {}
    /\ req = [p \in Procs |-> Idle]
    /\ nextUserId = 1
    /\ nextAppId = 1
    /\ started = 0
    /\ succeeded = {}
    /\ last = Idle

(***************************************************************************)
(* submitApplication                                                       *)
(***************************************************************************)

\* Joi validation, then `await User.findOne({ email })' and the check on it.
SubmitFindUser(p, email, password) ==
    /\ Free(p)
    /\ started' = started + 1
    /\ LET r0 == [Idle EXCEPT !.op = "submit", !.email = email, !.password = password] IN
       IF ~ValidPassword(password)
       THEN Finish(p, r0, Throw(400, "validation"))
       ELSE IF UserFindOne(email) # {}
       THEN Finish(p, r0, Throw(400, "User with this email already exists"))
       ELSE Continue(p, [r0 EXCEPT !.pc = "submit_findApplication"])
    /\ UNCHANGED <<users, apps, nextUserId, nextAppId, succeeded>>

\* `await InstructorApplication.findOne({ email })' and the check on it.
SubmitFindApplication(p) ==
    /\ req[p].pc = "submit_findApplication"
    /\ IF AppFindOne(req[p].email) # {}
       THEN Finish(p, req[p], Throw(400, "Application with this email already exists"))
       ELSE Continue(p, [req[p] EXCEPT !.pc = "submit_create"])
    /\ UNCHANGED <<users, apps, nextUserId, nextAppId, started, succeeded>>

\* `await InstructorApplication.create({...})': the unique index decides; its
\* E11000 error is not caught by the handler.
SubmitCreate(p) ==
    /\ req[p].pc = "submit_create"
    /\ LET doc == NewApplication(nextAppId, req[p].email, Plain(req[p].password)) IN
       IF AppEmailIndexAllows(doc.email)
       THEN /\ apps' = apps \cup {doc}
            /\ nextAppId' = nextAppId + 1
            /\ Continue(p, [req[p] EXCEPT !.pc = "submit_mail", !.id = doc.id])
       ELSE /\ Finish(p, [req[p] EXCEPT !.raced = TRUE], Throw(200, "DuplicateKey"))
            /\ UNCHANGED <<apps, nextAppId>>
    /\ UNCHANGED <<users, nextUserId, started, succeeded>>

\* Notified with the failed delivery escalated, as forgotPassword does.
NotifiedOrFails(p, delivered, response) ==
    Finish(p, [req[p] EXCEPT !.mail = IF delivered THEN "sent" ELSE "failed"],
           IF delivered THEN response
           ELSE Throw(500, "Failed to send email. Please try again later."))

\* The notification of a handler: try { await transporter.sendMail(...) }
\* catch (error) { console.error(...) }, then the handler's success response.
Notified(p, delivered, response) ==
    Finish(p, [req[p] EXCEPT !.mail = IF delivered THEN "sent" ELSE "failed"], response)

SubmitNotify(p) ==
    /\ req[p].pc = "submit_mail"
    /\ \E delivered \in BOOLEAN :
          Notified(p, delivered,
                          Reply(201, "Instructor application submitted successfully"))
    /\ UNCHANGED <<users, apps, nextUserId, nextAppId, started, succeeded>>

(***************************************************************************)
(* registerUser, loginUser                                                 *)
(***************************************************************************)

\* Joi validation, then `await User.findOne({ email })' and the check on it.
RegisterFindUser(p, email, password, role) ==
    /\ Free(p)
    /\ started' = started + 1
    /\ LET r0 == [Idle EXCEPT !.op = "register", !.email = email,
                              !.password = password, !.role = role] IN
       IF ~ValidPassword(password)
       THEN Finish(p, r0, Throw(400, "validation"))
       ELSE IF UserFindOne(email) # {}
       THEN Finish(p, r0, Throw(400, "User already exists"))
       ELSE Continue(p, [r0 EXCEPT !.pc = "register_create"])
    /\ UNCHANGED <<users, apps, nextUserId, nextAppId, succeeded>>

\* `await User.create({...})' and the response with the token.
RegisterCreate(p) ==
    /\ req[p].pc = "register_create"
    /\ LET doc == NewUser(nextUserId, req[p].email, Plain(req[p].password), req[p].role,
                          req[p].role = "admin", req[p].role = "instructor", NoSuchId) IN
       IF UserEmailIndexAllows(doc.email)
       THEN /\ users' = users \cup {doc}
            /\ nextUserId' = nextUserId + 1
            /\ Finish(p, req[p], Reply(201, "token"))
       ELSE /\ Finish(p, [req[p] EXCEPT !.raced = TRUE], Throw(200, "DuplicateKey"))
            /\ UNCHANGED <<users, nextUserId>>
    /\ UNCHANGED <<apps, nextAppId, started, succeeded>>

\* LoginResponse with an unknown email answered as forgotPassword answers it.
LoginResponseTellsUnknown(found, password) ==
    IF found = {} THEN Throw(404, "User not found with this email")
    ELSE IF \E u \in found : bcryptCompare(password, u.password)
    THEN Reply(200, "token")
    ELSE Throw(401, "Invalid email or password")

\* if (user && (await user.matchPassword(password))) {...} else {401}
LoginResponse(found, password) ==
    IF found # {} /\ \E u \in found : bcryptCompare(password, u.password)
    THEN Reply(200, "token")
    ELSE Throw(401, "Invalid email or password")

\* requirePasswordChange: isTemporaryPassword || false, where
\* isTemporaryPassword is the field of the request body.
RequirePasswordChange(isTemporaryPassword) == isTemporaryPassword

\* `await User.findOne({ email })', matchPassword and the response.  temporary
\* is history: the isTemporaryPassword flag stored for the Identity.
LoginUser(p, email, password, isTemporaryPassword) ==
    /\ Free(p)
    /\ started' = started + 1
    /\ LET found == UserFindOne(email)
           response == LoginResponse(found, password)
           r0 == [Idle EXCEPT !.op = "login", !.email = email, !.password = password,
                              !.found = (found # {}),
                              !.temporary = (\E u \in found : u.isTemporaryPassword),
                              !.requirePasswordChange =
                                  (~response.thrown
                                     /\ RequirePasswordChange(isTemporaryPassword))] IN
       Finish(p, r0, response)
    /\ UNCHANGED <<users, apps, nextUserId, nextAppId, succeeded>>

(***************************************************************************)
(* approveApplication, rejectApplication, deleteApplication                *)
(***************************************************************************)

\* The operations on application id that were answered with success so far.
Prior(id) == {o \in {"approve", "reject"} : <<o, id>> \in succeeded}

\* ApproveGuard written so that only a rejected application is refused.
ApproveGuardOnlyRejected(application) == application.status # "rejected"

\* if (application.status !== 'pending') of approveApplication
ApproveGuard(application) == application.status = "pending"

\* RejectGuard written so that only a rejected application is refused.
RejectGuardOnlyRejected(application) == application.status # "rejected"

\* if (application.status !== 'pending') of rejectApplication
RejectGuard(application) == application.status = "pending"

\* AppSave of a handler that never writes the document back.
AppSaveLost(id, changed) == apps

\* application.save() of a loaded document: an update of the stored document
\* with the paths modified in memory; DocumentNotFoundError when the document
\* is gone.
AppSave(id, changed) == {IF a.id = id THEN changed ELSE a : a \in apps}

\* `await InstructorApplication.findById(req.params.id)' and the two checks.
ApproveLoad(p, id, by) ==
    /\ Free(p)
    /\ started' = started + 1
    /\ LET r0 == [Idle EXCEPT !.op = "approve", !.id = id, !.by = by, !.prior = Prior(id)] IN
       IF AppFindById(id) = {}
       THEN Finish(p, r0, Throw(404, "Application not found"))
       ELSE \E application \in AppFindById(id) :
               IF ~ApproveGuard(application)
               THEN Finish(p, r0, Throw(400, "Application has already been processed"))
               ELSE Continue(p, [r0 EXCEPT !.pc = "approve_createUser",
                                      !.application = application])
    /\ UNCHANGED <<users, apps, nextUserId, nextAppId, succeeded>>

\* `await User.create({...})' with the application's name, email and password.
ApproveCreateUser(p) ==
    /\ req[p].pc = "approve_createUser"
    /\ LET application == req[p].application
           doc == NewUser(nextUserId, application.email, application.password, "instructor",
                          FALSE, TRUE, application.id)
       IN
       IF UserEmailIndexAllows(doc.email)
       THEN /\ users' = users \cup {doc}
            /\ nextUserId' = nextUserId + 1
            /\ Continue(p, [req[p] EXCEPT !.pc = "approve_save", !.user = doc])
       ELSE /\ Finish(p, [req[p] EXCEPT !.raced = TRUE], Throw(200, "DuplicateKey"))
            /\ UNCHANGED <<users, nextUserId>>
    /\ UNCHANGED <<apps, nextAppId, started, succeeded>>

\* application.status = 'approved'; ...; `await application.save()'.
ApproveSave(p) ==
    /\ req[p].pc = "approve_save"
    /\ IF AppFindById(req[p].id) = {}
       THEN /\ Finish(p, req[p], Throw(200, "DocumentNotFound"))
            /\ UNCHANGED apps
       ELSE \E stored \in AppFindById(req[p].id) :
            \E password \in AppPreSaveUnmodified(stored.password,
                                                 req[p].application.password) :
               /\ apps' = AppSave(req[p].id,
                                  [stored EXCEPT !.status = "approved",
                                                 !.approvedBy = req[p].by,
                                                 !.approvedAt = TRUE,
                                                 !.password = password])
               /\ Continue(p, [req[p] EXCEPT !.pc = "approve_mail"])
    /\ UNCHANGED <<users, nextUserId, nextAppId, started, succeeded>>

ApproveNotify(p) ==
    /\ req[p].pc = "approve_mail"
    /\ \E delivered \in BOOLEAN :
          Notified(p, delivered, Reply(200, "Application approved successfully"))
    /\ succeeded' = succeeded \cup {<<"approve", req[p].id>>}
    /\ UNCHANGED <<users, apps, nextUserId, nextAppId, started>>

\* `await InstructorApplication.findById(req.params.id)' and the two checks.
RejectLoad(p, id, by, reason) ==
    /\ Free(p)
    /\ started' = started + 1
    /\ LET r0 == [Idle EXCEPT !.op = "reject", !.id = id, !.by = by, !.reason = reason,
                              !.prior = Prior(id)] IN
       IF AppFindById(id) = {}
       THEN Finish(p, r0, Throw(404, "Application not found"))
       ELSE \E application \in AppFindById(id) :
               IF ~RejectGuard(application)
               THEN Finish(p, r0, Throw(400, "Application has already been processed"))
               ELSE Continue(p, [r0 EXCEPT !.pc = "reject_save", !.application = application])
    /\ UNCHANGED <<users, apps, nextUserId, nextAppId, succeeded>>

\* application.status = 'rejected'; ...; `await application.save()'.
RejectSave(p) ==
    /\ req[p].pc = "reject_save"
    /\ IF AppFindById(req[p].id) = {}
       THEN /\ Finish(p, req[p], Throw(200, "DocumentNotFound"))
            /\ UNCHANGED apps
       ELSE \E stored \in AppFindById(req[p].id) :
            \E password \in AppPreSaveUnmodified(stored.password,
                                                 req[p].application.password) :
               /\ apps' = AppSave(req[p].id,
                                  [stored EXCEPT !.status = "rejected",
                                                 !.rejectedBy = req[p].by,
                                                 !.rejectedAt = TRUE,
                                                 !.rejectionReason = req[p].reason,
                                                 !.password = password])
               /\ Continue(p, [req[p] EXCEPT !.pc = "reject_mail"])
    /\ UNCHANGED <<users, nextUserId, nextAppId, started, succeeded>>

RejectNotify(p) ==
    /\ req[p].pc = "reject_mail"
    /\ \E delivered \in BOOLEAN :
          Notified(p, delivered, Reply(200, "Application rejected successfully"))
    /\ succeeded' = succeeded \cup {<<"reject", req[p].id>>}
    /\ UNCHANGED <<users, apps, nextUserId, nextAppId, started>>

\* `await InstructorApplication.findById(req.params.id)' and the check.
DeleteLoad(p, id) ==
    /\ Free(p)
    /\ started' = started + 1
    /\ LET r0 == [Idle EXCEPT !.op = "delete", !.id = id] IN
       IF AppFindById(id) = {}
       THEN Finish(p, r0, Throw(404, "Application not found"))
       ELSE Continue(p, [r0 EXCEPT !.pc = "delete_deleteOne"])
    /\ UNCHANGED <<users, apps, nextUserId, nextAppId, succeeded>>

\* AppDeleteOne of a handler that keeps approved applications.
AppDeleteOneUnlessApproved(id) == {a \in apps : a.id # id \/ a.status = "approved"}

\* application.deleteOne(): the collection without the document of that _id.
AppDeleteOne(id) == {a \in apps : a.id # id}

\* `await application.deleteOne()' and the response.
DeleteOne(p) ==
    /\ req[p].pc = "delete_deleteOne"
    /\ apps' = AppDeleteOne(req[p].id)
    /\ Finish(p, req[p], Reply(200, "Application deleted successfully"))
    /\ UNCHANGED <<users, nextUserId, nextAppId, started, succeeded>>

(***************************************************************************)
(* forgotPassword, changePassword and updateUserProfile.                   *)
(***************************************************************************)

\* UserSave of a handler that does not await (or make) the save.
UserSaveLost(id, changed) == users

\* user.save() of a loaded document: the stored document of that _id with
\* the modified paths set.
UserSave(id, changed) == {IF u.id = id THEN changed ELSE u : u \in users}

\* `await User.findOne({ email })', the check and the temporary password.
ForgotFindUser(p, email, tempPassword) ==
    /\ Free(p)
    /\ started' = started + 1
    /\ LET r0 == [Idle EXCEPT !.op = "forgot", !.email = email,
                              !.found = (UserFindOne(email) # {})] IN
       IF UserFindOne(email) = {}
       THEN Finish(p, r0, Throw(404, "User not found with this email"))
       ELSE \E user \in UserFindOne(email) :
               Continue(p, [r0 EXCEPT !.pc = "forgot_save", !.user = user,
                                      !.id = user.id, !.password = tempPassword])
    /\ UNCHANGED <<users, apps, nextUserId, nextAppId, succeeded>>

\* user.password = tempPassword; user.isTemporaryPassword = true, as the save
\* stores them.
ForgotRotated(stored, tempPassword) ==
    [stored EXCEPT !.password = UserPreSave(Plain(tempPassword)),
                   !.isTemporaryPassword = TRUE]

\* `await user.save()'
ForgotSave(p) ==
    /\ req[p].pc = "forgot_save"
    /\ \E stored \in UserFindById(req[p].id) :
          users' = UserSave(req[p].id, ForgotRotated(stored, req[p].password))
    /\ Continue(p, [req[p] EXCEPT !.pc = "forgot_mail"])
    /\ UNCHANGED <<apps, nextUserId, nextAppId, started, succeeded>>

\* ForgotResponse of a handler that swallows the failure of sendMail, as the
\* application handlers do.
ForgotResponseSwallows(delivered) == Reply(200, "Temporary password sent to your email")

\* try { await transporter.sendMail(...); res.json(...) }
\* catch { res.status(500); throw ... }
ForgotResponse(delivered) ==
    IF delivered
    THEN Reply(200, "Temporary password sent to your email")
    ELSE Throw(500, "Failed to send email. Please try again later.")

\* `await transporter.sendMail(mailOptions)' and the response.
ForgotNotify(p) ==
    /\ req[p].pc = "forgot_mail"
    /\ \E delivered \in BOOLEAN :
          Finish(p, [req[p] EXCEPT !.mail = IF delivered THEN "sent" ELSE "failed"],
                 ForgotResponse(delivered))
    /\ UNCHANGED <<users, apps, nextUserId, nextAppId, started, succeeded>>

\* ChangeGuard of a handler that does not check the current password.
ChangeGuardAcceptsAny(currentPassword, user) == TRUE

\* await user.matchPassword(currentPassword)
ChangeGuard(currentPassword, user) == bcryptCompare(currentPassword, user.password)

\* `await User.findById(req.user._id)', the check and matchPassword.
ChangeLoad(p, id, currentPassword, newPassword) ==
    /\ Free(p)
    /\ started' = started + 1
    /\ LET r0 == [Idle EXCEPT !.op = "change", !.id = id,
                              !.found = (\E u \in UserFindById(id) :
                                            bcryptCompare(currentPassword, u.password))] IN
       IF UserFindById(id) = {}
       THEN Finish(p, r0, Throw(404, "User not found"))
       ELSE \E user \in UserFindById(id) :
               IF ~ChangeGuard(currentPassword, user)
               THEN Finish(p, r0, Throw(400, "Current password is incorrect"))
               ELSE Continue(p, [r0 EXCEPT !.pc = "change_save", !.user = user,
                                           !.email = user.email,
                                           !.password = newPassword])
    /\ UNCHANGED <<users, apps, nextUserId, nextAppId, succeeded>>

\* user.password = newPassword; user.isTemporaryPassword = false;
\* `await user.save()' and the response.
ChangeSave(p) ==
    /\ req[p].pc = "change_save"
    /\ \E stored \in UserFindById(req[p].id) :
          users' = UserSave(req[p].id,
                            [stored EXCEPT !.password = UserPreSave(Plain(req[p].password)),
                                           !.isTemporaryPassword = FALSE])
    /\ Finish(p, req[p], Reply(200, "Password changed successfully"))
    /\ UNCHANGED <<apps, nextUserId, nextAppId, started, succeeded>>

\* `await User.findById(req.user._id)', the check, and
\* user.email = req.body.email || user.email
UpdateLoad(p, id, email) ==
    /\ Free(p)
    /\ started' = started + 1
    /\ LET r0 == [Idle EXCEPT !.op = "update", !.id = id] IN
       IF UserFindById(id) = {}
       THEN Finish(p, r0, Throw(404, "User not found"))
       ELSE \E user \in UserFindById(id) :
               Continue(p, [r0 EXCEPT !.pc = "update_save", !.user = user,
                                      !.email = IF email = "undefined"
                                                THEN user.email
                                                ELSE toLowerCase(email)])
    /\ UNCHANGED <<users, apps, nextUserId, nextAppId, succeeded>>

\* `await user.save()' and the response: the email is written when it was
\* modified, and the unique index refuses an email another document holds.
UpdateSave(p) ==
    /\ req[p].pc = "update_save"
    /\ IF req[p].email = req[p].user.email
       THEN /\ Finish(p, req[p], Reply(200, "token"))
            /\ UNCHANGED users
       ELSE IF UserEmailIndexAllows(req[p].email)
       THEN /\ \E stored \in UserFindById(req[p].id) :
                  users' = UserSave(req[p].id, [stored EXCEPT !.email = req[p].email])
            /\ Finish(p, req[p], Reply(200, "token"))
       ELSE /\ Finish(p, [req[p] EXCEPT !.raced = TRUE], Throw(200, "DuplicateKey"))
            /\ UNCHANGED users
    /\ UNCHANGED <<apps, nextUserId, nextAppId, started, succeeded>>

(***************************************************************************)
(* The specification.                                                      *)
(***************************************************************************)

\* The _id of req.user: an Identity that exists, or one that names none.
UserIds == (1..(nextUserId - 1)) \cup {NoSuchId}

\* Ids a request can name: those handed out so far, and one that names nothing.
AppIds == (1..(nextAppId - 1)) \cup {NoSuchId}

Next ==
    \E p \in Procs :
        \/ \E e \in RawEmails, s \in NewSecrets : SubmitFindUser(p, e, s)
        \/ SubmitFindApplication(p)
        \/ SubmitCreate(p)
        \/ SubmitNotify(p)
        \/ \E e \in RawEmails, s \in NewSecrets, r \in Roles :
              RegisterFindUser(p, e, s, r)
        \/ RegisterCreate(p)
        \/ \E e \in RawEmails, s \in Secrets \cup TempSecrets, t \in BOOLEAN :
              LoginUser(p, e, s, t)
        \/ \E id \in AppIds, by \in Admins : ApproveLoad(p, id, by)
        \/ ApproveCreateUser(p)
        \/ ApproveSave(p)
        \/ ApproveNotify(p)
        \/ \E id \in AppIds, by \in Admins, reason \in Reasons : RejectLoad(p, id, by, reason)
        \/ RejectSave(p)
        \/ RejectNotify(p)
        \/ \E id \in AppIds : DeleteLoad(p, id)
        \/ DeleteOne(p)
        \/ \E e \in RawEmails, t \in TempSecrets : ForgotFindUser(p, e, t)
        \/ ForgotSave(p)
        \/ ForgotNotify(p)
        \/ \E id \in UserIds, c \in Secrets \cup TempSecrets, n \in ChangedSecrets :
              ChangeLoad(p, id, c, n)
        \/ ChangeSave(p)
        \/ \E id \in UserIds, e \in ProfileEmails : UpdateLoad(p, id, e)
        \/ UpdateSave(p)

Spec == Init /\ [][Next]_vars


(***************************************************************************)
(* Properties.                                                             *)
(***************************************************************************)

StoredStatus(id) == {a.status : a \in AppFindById(id)}

\* C1: the stored status of an application only ever changes from pending to
\* approved or from pending to rejected; a stored approved or rejected status
\* never changes again.
C1_StatusMonotonic ==
    [][\A a \in apps : \A b \in apps' :
          (a.id = b.id /\ a.status # b.status) => a.status = "pending"]_vars

\* C2: of the Approve and Reject requests on one application id at most one
\* takes effect and reports success; no application id has both an Approve
\* and a Reject that were answered with success.
C2_OneDecisionPerApplication ==
    \A id \in 1..(nextAppId - 1) : Cardinality(Prior(id)) <= 1

\* C3: no two Identities share a normalized email and no two Applications
\* share a normalized email, in every reachable state.
C3_EmailUnique ==
    /\ \A u \in users : \A v \in users : u.email = v.email => u = v
    /\ \A a \in apps : \A b \in apps : a.email = b.email => a = b

\* C3 witness: a Submit passed both pre-checks and then lost the insert race,
\* and the Application of the winner is stored.
C3_Witness ==
    /\ last.op = "submit"
    /\ last.raced
    /\ AppFindOne(last.email) # {}

\* C4: a Submit or Register that passed its pre-check and then lost the insert
\* race fails with the error kind of the pre-check, Conflict.
C4_RaceLossIsConflict ==
    (last.op \in {"submit", "register"} /\ last.raced) => Kind(last.res) = "Conflict"

\* C5: when an Approve that passed its guards ends, either it has created an
\* Identity from the Application and the Application's stored status is
\* approved, or it has created no Identity and ends leaving both stores as
\* they were (the Application is not promoted by it).
C5_ApproveIsOneTransition ==
    [][\A p \in Procs :
          (req[p].op = "approve" /\ req'[p].pc = "idle") =>
             \/ /\ req[p].user # NoDoc
                /\ \E a \in apps' : a.id = req[p].id /\ a.status = "approved"
             \/ /\ req[p].user = NoDoc
                /\ users' = users
                /\ apps' = apps]_vars

\* C6: an Approve that starts after an Approve of the same application id was
\* answered with success, the application still being stored, is answered
\* InvalidState; it never gets past its guard, so it writes to neither store,
\* and exactly one Identity was created from the application.
C6_SecondApproveInvalidState ==
    /\ \A p \in Procs : ~(req[p].op = "approve" /\ "approve" \in req[p].prior)
    /\ (last.op = "approve" /\ "approve" \in last.prior /\ Kind(last.res) # "NotFound") =>
          /\ Kind(last.res) = "InvalidState"
          /\ Cardinality({u \in users : u.application = last.id}) = 1

C6_Witness ==
    /\ last.op = "approve"
    /\ "approve" \in last.prior
    /\ Kind(last.res) = "InvalidState"

\* C7: an Approve that starts after a successful Reject of the same
\* application id, and a Reject that starts after a successful Approve, is
\* answered InvalidState (the application still being stored) and never gets
\* past its guard, so it leaves the Application and the Identity Store as
\* they were.
C7_DecidedStaysDecided ==
    /\ \A p \in Procs : ~(req[p].op = "approve" /\ "reject" \in req[p].prior)
    /\ \A p \in Procs : ~(req[p].op = "reject" /\ "approve" \in req[p].prior)
    /\ (last.op = "approve" /\ "reject" \in last.prior /\ Kind(last.res) # "NotFound") =>
          Kind(last.res) = "InvalidState"
    /\ (last.op = "reject" /\ "approve" \in last.prior /\ Kind(last.res) # "NotFound") =>
          Kind(last.res) = "InvalidState"

C7_Witness ==
    /\ last.op = "approve"
    /\ "reject" \in last.prior
    /\ Kind(last.res) = "InvalidState"
    /\ StoredStatus(last.id) = {"rejected"}
    /\ \A u \in users : u.application # last.id

\* C8: the Identity that Approve creates stores exactly the Application's
\* secret hash, so every secret that verifies against the Application's hash
\* verifies against the Identity's.
C8_HashReused ==
    \A p \in Procs :
        (req[p].op = "approve" /\ req[p].user # NoDoc) =>
            /\ req[p].user.password = req[p].application.password
            /\ \A s \in Secrets :
                  bcryptCompare(s, req[p].application.password)
                     => LoginResponse({req[p].user}, s) = Reply(200, "token")

\* C9: the notification step of Submit, Approve and Reject ends the request
\* with its success response whether or not the delivery failed, and leaves
\* both stores as the request's earlier steps committed them.
C9_NotificationNeverEscalates ==
    [][\A p \in Procs :
          (req[p].pc \in {"submit_mail", "approve_mail", "reject_mail"}
              /\ req'[p].pc = "idle") =>
             /\ Kind(last'.res) = "Success"
             /\ last'.res.status = (IF req[p].op = "submit" THEN 201 ELSE 200)
             /\ last'.op = req[p].op /\ last'.id = req[p].id
             /\ users' = users
             /\ apps' = apps]_vars

\* C9 witness: an Approve whose notification was not delivered was answered
\* with success; its Identity exists and the Application is approved.
C9_Witness ==
    /\ last.op = "approve"
    /\ last.mail = "failed"
    /\ Kind(last.res) = "Success"
    /\ StoredStatus(last.id) = {"approved"}
    /\ \E u \in users : u.application = last.id

\* C10: a Login that fails is answered with the same status and the same
\* message whether no Identity has the email or the secret does not verify.
C10_LoginFailureUniform ==
    (last.op = "login" /\ last.res.thrown) =>
        /\ Kind(last.res) = "Unauthorized"
        /\ last.res.message = "Invalid email or password"

\* C10 witness: a Login for a stored Identity failed on the secret.
C10_Witness ==
    /\ last.op = "login"
    /\ last.found
    /\ Kind(last.res) = "Unauthorized"

\* C11: the requirePasswordChange flag of a successful Login equals the
\* isTemporaryPassword flag stored for the Identity that logged in, whatever
\* else the request carries.
C11_RequirePasswordChangeIsStored ==
    (last.op = "login" /\ Kind(last.res) = "Success") =>
        last.requirePasswordChange = last.temporary

\* A request ends in this step: `last' becomes its record.
Ended ==
    \/ started' # started /\ req' = req
    \/ \E p \in Procs : req[p].pc # "idle" /\ req'[p].pc = "idle"

\* The request of operation op that starts in this step and goes on.
Begins(p, op) == req[p].pc = "idle" /\ req'[p].op = op

\* A request of operation op starts and ends in this step.
BeginsAndEnds(op) == started' # started /\ req' = req /\ last'.op = op

\* C12: ForgotSecret for an email no Identity has fails with NotFound and
\* changes no Identity; for an Identity that exists it stores the hash of a
\* newly generated secret and sets the temporary flag, changing nothing else;
\* when the delivery fails it ends with DeliveryError.
C12_ForgotSecret ==
    [][/\ BeginsAndEnds("forgot") =>
             /\ UserFindOne(last'.email) = {}
             /\ Kind(last'.res) = "NotFound"
             /\ users' = users
       /\ \A p \in Procs :
             /\ Begins(p, "forgot") =>
                   /\ req'[p].user \in UserFindOne(req'[p].email)
                   /\ req'[p].password \in TempSecrets
                   /\ users' = users
             /\ (req[p].pc = "forgot_save" /\ req'[p] # req[p]) =>
                   /\ req'[p].pc = "forgot_mail"
                   /\ \E u \in users :
                         /\ u.id = req[p].id
                         /\ users' = (users \ {u}) \cup
                               {[u EXCEPT !.password = bcryptHash(Plain(req[p].password)),
                                          !.isTemporaryPassword = TRUE]}
             /\ (req[p].pc = "forgot_mail" /\ req'[p] # req[p]) =>
                   /\ req'[p].pc = "idle" /\ last'.op = "forgot"
                   /\ users' = users
                   /\ last'.mail = "failed" => Kind(last'.res) = "DeliveryError"
                   /\ last'.mail = "sent" => Kind(last'.res) = "Success"]_vars

\* C12 witness: a ForgotSecret for a stored Identity ended with DeliveryError;
\* the Identity carries the temporary flag.
C12_Witness ==
    /\ last.op = "forgot"
    /\ last.mail = "failed"
    /\ Kind(last.res) = "DeliveryError"
    /\ \E u \in users : u.id = last.id /\ u.isTemporaryPassword

\* C12 second case: a ForgotSecret for an unknown email ended with NotFound.
C12_WitnessNotFound ==
    /\ last.op = "forgot"
    /\ ~last.found
    /\ Kind(last.res) = "NotFound"

IdentityHas(email) == \E u \in users : u.email = toLowerCase(email)
ApplicationHas(email) == \E a \in apps : a.email = toLowerCase(email)

\* C13: a valid Submit that finds an Identity or an Application with its
\* email fails with Conflict and creates no Application; a valid Register
\* that finds an Identity with its email fails with Conflict and creates no
\* Identity; a Submit answered with success has added exactly one
\* Application, with status pending.
C13_ConflictOnExistingEmail ==
    [][/\ (BeginsAndEnds("submit") /\ last'.res.message # "validation") =>
             /\ IdentityHas(last'.email)
             /\ Kind(last'.res) = "Conflict"
             /\ apps' = apps /\ users' = users
       /\ (BeginsAndEnds("register") /\ last'.res.message # "validation") =>
             /\ IdentityHas(last'.email)
             /\ Kind(last'.res) = "Conflict"
             /\ apps' = apps /\ users' = users
       /\ (Ended /\ last'.op = "submit" /\ Kind(last'.res) = "Success") =>
             \E p \in Procs : req[p].pc = "submit_mail" /\ req'[p].pc = "idle"
       /\ \A p \in Procs :
             /\ Begins(p, "submit") =>
                   ~IdentityHas(req'[p].email) /\ apps' = apps
             /\ Begins(p, "register") =>
                   ~IdentityHas(req'[p].email) /\ users' = users
             /\ (req[p].pc = "submit_findApplication" /\ req'[p] # req[p]) =>
                   /\ apps' = apps
                   /\ IF ApplicationHas(req[p].email)
                      THEN /\ req'[p].pc = "idle" /\ last'.op = "submit"
                           /\ Kind(last'.res) = "Conflict"
                      ELSE req'[p].pc = "submit_create"
             /\ (req[p].pc = "submit_create" /\ req'[p].pc = "submit_mail") =>
                   \E a \in apps' :
                      /\ a \notin apps /\ apps' = apps \cup {a}
                      /\ \A b \in apps : b.id # a.id
                      /\ a.id = req'[p].id
                      /\ a.status = "pending"
                      /\ a.email = toLowerCase(req[p].email)
             /\ (req[p].pc = "submit_create" /\ req'[p].pc = "idle") => apps' = apps
             /\ (req[p].pc = "submit_mail" /\ req'[p] # req[p]) => apps' = apps]_vars

\* C13 witness: a Submit has just been refused with Conflict because an
\* Application holds its email, and the store holds that one Application.
C13_Witness ==
    /\ last.op = "submit"
    /\ Kind(last.res) = "Conflict"
    /\ last.res.message = "Application with this email already exists"
    /\ Cardinality({a \in apps : a.email = toLowerCase(last.email)}) = 1

\* C14: a Reject answered with success has stored status rejected, the
\* rejecter, the rejection time and the reason it was given for its
\* Application, and no step of a Reject changes the Identity Store.
C14_RejectRecordsAndKeepsIdentities ==
    [][/\ BeginsAndEnds("reject") => users' = users /\ apps' = apps
       /\ (Ended /\ last'.op = "reject" /\ Kind(last'.res) = "Success") =>
             \E p \in Procs : req[p].pc = "reject_mail" /\ req'[p].pc = "idle"
       /\ \A p \in Procs :
             /\ Begins(p, "reject") => users' = users /\ apps' = apps
             /\ (req[p].op = "reject" /\ req'[p] # req[p]) => users' = users
             /\ (req[p].pc = "reject_save" /\ req'[p].pc = "reject_mail") =>
                   /\ \E b \in apps' :
                         /\ b.id = req[p].id
                         /\ b.status = "rejected"
                         /\ b.rejectedBy = req[p].by
                         /\ b.rejectedAt
                         /\ b.rejectionReason = req[p].reason
                   /\ \A a \in apps : a.id # req[p].id => a \in apps'
             /\ (req[p].pc = "reject_mail" /\ req'[p] # req[p]) => apps' = apps]_vars

\* C14 witness: a Reject with a reason was answered with success; its
\* Application is stored rejected with rejecter and reason, and no Identity
\* has its email.
C14_Witness ==
    /\ last.op = "reject"
    /\ Kind(last.res) = "Success"
    /\ \E a \in apps :
          /\ a.id = last.id
          /\ a.status = "rejected"
          /\ a.rejectedBy \in Admins
          /\ a.rejectedAt
          /\ a.rejectionReason = "insufficient experience"
          /\ ~IdentityHas(a.email)

C15_WitnessRefused ==
    /\ last.op = "change"
    /\ Kind(last.res) = "Unauthorized"
    /\ \E u \in users : u.id = last.id

\* C16: Delete removes the Application of the given id whatever its status
\* and fails with NotFound when there is none; no step of a Delete changes
\* the Identity Store, so an Identity created by approving the Application is
\* still stored afterwards and every Login is answered as before.
C16_DeleteKeepsIdentities ==
    [][/\ BeginsAndEnds("delete") =>
             /\ \A a \in apps : a.id # last'.id
             /\ Kind(last'.res) = "NotFound"
             /\ users' = users /\ apps' = apps
       /\ \A p \in Procs :
             /\ Begins(p, "delete") =>
                   /\ \E a \in apps : a.id = req'[p].id
                   /\ users' = users /\ apps' = apps
             /\ (req[p].pc = "delete_deleteOne" /\ req'[p] # req[p]) =>
                   /\ req'[p].pc = "idle"
                   /\ last'.op = "delete" /\ Kind(last'.res) = "Success"
                   /\ apps' = {a \in apps : a.id # req[p].id}
                   /\ users' = users
                   /\ \A e \in RawEmails, s \in Secrets \cup TempSecrets :
                         LoginResponse({u \in users' : u.email = toLowerCase(e)}, s)
                            = LoginResponse({u \in users : u.email = toLowerCase(e)}, s)]_vars

\* C16 witness: an approved Application was deleted; the Identity created by
\* approving it is still stored.
C16_Witness ==
    /\ last.op = "delete"
    /\ Kind(last.res) = "Success"
    /\ <<"approve", last.id>> \in succeeded
    /\ \A a \in apps : a.id # last.id
    /\ \E u \in users : u.application = last.id

\* C17: no operation changes the role (or the role flags) of an Identity once
\* it is created, and in every state that is reached every Identity has
\* isAdmin exactly when its role is admin and isInstructor exactly when its
\* role is instructor.
C17_RoleFixedAndFlagsAgree ==
    [][/\ \A u \in users' :
             /\ u.isAdmin <=> u.role = "admin"
             /\ u.isInstructor <=> u.role = "instructor"
       /\ \A u \in users :
             \E v \in users' :
                /\ v.id = u.id
                /\ v.role = u.role
                /\ v.isAdmin = u.isAdmin
                /\ v.isInstructor = u.isInstructor]_vars

\* C17 witness: the Identity created by an approval, an instructor, has had
\* its email changed by a profile update, and a registered admin is stored too.
C17_Witness ==
    /\ last.op = "update"
    /\ Kind(last.res) = "Success"
    /\ \E u \in users :
          /\ u.id = last.id
          /\ u.application # NoSuchId
          /\ u.role = "instructor" /\ u.isInstructor /\ ~u.isAdmin
          /\ u.email = "bob@x.com"
    /\ \E a \in users : a.role = "admin" /\ a.isAdmin /\ ~a.isInstructor

\* An Approve of application id is under way: between its User.create and
\* its save the Identity exists while the status is still pending.
ApproveInFlight(id) ==
    \E p \in Procs : req[p].op = "approve" /\ req[p].id = id /\ req[p].pc # "idle"

\* C18: the audit fields of every stored Application agree with its status:
\* approvedBy/approvedAt are set only when it is approved, rejectedBy/
\* rejectedAt/rejectionReason only when it is rejected, and never both groups;
\* and once no Approve of it is under way, an Identity created by approving an
\* Application exists only if that Application is stored approved or is deleted.
C18_AuditAgreesWithStatus ==
    /\ \A a \in apps :
          /\ (a.approvedBy # Unset \/ a.approvedAt) => a.status = "approved"
          /\ (a.rejectedBy # Unset \/ a.rejectedAt \/ a.rejectionReason # Unset)
                => a.status = "rejected"
    /\ \A u \in users :
          (u.application # NoSuchId /\ ~ApproveInFlight(u.application)) =>
              \A a \in apps : a.id = u.application => a.status = "approved"

C20_RotationBeforeDelivery ==
    [][/\ (Ended /\ last'.op = "forgot" /\ Kind(last'.res) = "DeliveryError") =>
             /\ \E p \in Procs : req[p].pc = "forgot_mail" /\ req'[p].pc = "idle"
             /\ users' = users
       /\ \A p \in Procs :
             /\ req'[p].pc = "forgot_mail" => req[p].pc \in {"forgot_save", "forgot_mail"}
             /\ (req[p].pc = "forgot_save" /\ req'[p].pc = "forgot_mail") =>
                   \E v \in users' :
                      /\ v.id = req[p].id
                      /\ v.password = bcryptHash(Plain(req[p].password))
                      /\ v.isTemporaryPassword
                      /\ \A s \in (Secrets \cup ChangedSecrets) \ {req[p].password} :
                            Kind(LoginResponse({v}, s)) = "Unauthorized"
                      /\ Kind(LoginResponse({v}, req[p].password)) = "Success"]_vars

\* C20 witness: a ForgotSecret ended with DeliveryError and its Identity,
\* registered with secret1, holds the hash of the temporary secret and the
\* flag; Login with secret1 is refused.
C20_Witness ==
    /\ last.op = "forgot"
    /\ Kind(last.res) = "DeliveryError"
    /\ \E u \in users :
          /\ u.id = last.id
          /\ u.isTemporaryPassword
          /\ u.password \in {bcryptHash(Plain(t)) : t \in TempSecrets}
          /\ Kind(LoginResponse({u}, "secret1")) = "Unauthorized"

C21_WitnessResubmitted ==
    /\ last.op = "submit"
    /\ Kind(last.res) = "Success"
    /\ last.id > 1
    /\ \E a \in apps : a.id = last.id /\ a.email = toLowerCase(last.email)
    /\ \E q \in 1..(last.id - 1) :
          /\ \A a \in apps : a.id # q
          /\ <<"reject", q>> \in succeeded

====
